---- MODULE Spec2Model ----
(***************************************************************************)
(* Model of convert_svelte_files.py: create_text_files() walks the current *)
(* directory with os.walk('.'), and copies every '*.svelte' file it finds  *)
(* into the flat directory 'text_files' under a name that encodes the      *)
(* file's directory.                                                       *)
(*                                                                         *)
(* Strings are sequences of one-character strings, so that endswith, the   *)
(* slice [:-7], the substring test and str.replace are computed the way    *)
(* Python computes them.  A file's content is a sequence of code units:    *)
(* "CR" and "LF" are the two line-end characters, "BAD" is a byte that is  *)
(* not valid UTF-8.  The file system is POSIX: '/' separates components    *)
(* and a backslash is an ordinary character of a name.                     *)
(***************************************************************************)
EXTENDS Integers, Sequences, FiniteSets, TLC

VARIABLES
    files,      \* the file system: <<dir, name>> -> content
    dirs,       \* the directories that exist (sequences of components)
    occupied,   \* a non-directory entry sits at ./text_files
    unlistable, \* directories whose scandir raises OSError
    unwritable, \* names under text_files that cannot be opened for writing
    rev,        \* which of the two enumeration orders scandir uses
    pc,         \* "start" | "walk" | "files" | "done" | "failed"
    run,        \* number of the current invocation of the script
    stack,      \* directories os.walk has still to visit, next one first
    cur,        \* the directory whose files are being looped over
    pending,    \* the rest of that directory's file list
    console,    \* the lines printed by the current invocation
    matched,    \* files that passed endswith('.svelte'), with their new name
    enumErr,    \* os.walk met (and swallowed) a scandir error
    snap        \* text_files as the first invocation left it

vars == <<files, dirs, occupied, unlistable, unwritable, rev, pc, run, stack,
          cur, pending, console, matched, enumErr, snap>>

----------------------------------------------------------------------------
(* Bounds *)

MaxFiles == 2
MaxRuns == 2
MaxFaults == 1

----------------------------------------------------------------------------
(* String constants of the program *)

SVELTE == <<".", "s", "v", "e", "l", "t", "e">>
TXT == <<".", "t", "x", "t">>
TEXT_FILES == <<"t", "e", "x", "t", "_", "f", "i", "l", "e", "s">>
SuffixLen == 7
BSL == "\\"
OutputDir == <<TEXT_FILES>>

----------------------------------------------------------------------------
(* Python string operations *)

EndsWith(s, suf) ==
    /\ Len(s) >= Len(suf)
    /\ SubSeq(s, Len(s) - Len(suf) + 1, Len(s)) = suf

Contains(s, sub) ==
    \E i \in 1..(Len(s) - Len(sub) + 1) : SubSeq(s, i, i + Len(sub) - 1) = sub

\* s[:-n]
DropLast(s, n) == SubSeq(s, 1, Len(s) - n)

\* s.replace(a, b) for one-character a and b
Replace(s, a, b) == [i \in 1..Len(s) |-> IF s[i] = a THEN b ELSE s[i]]

RECURSIVE Join(_, _)
\* sep.join(comps)
Join(comps, sep) ==
    IF comps = <<>> THEN <<>>
    ELSE IF Len(comps) = 1 THEN comps[1]
    ELSE comps[1] \o <<sep>> \o Join(Tail(comps), sep)

Range(s) == {s[i] : i \in 1..Len(s)}

----------------------------------------------------------------------------
(* Paths *)

\* the 'root' string os.walk('.') yields for a directory
WalkRoot(d) == IF d = <<>> THEN <<".">> ELSE <<".", "/">> \o Join(d, "/")

\* str(Path(root).relative_to('.'))
RelativePath(d) == IF d = <<>> THEN <<".">> ELSE Join(d, "/")

\* str(Path(root) / file)
SourcePath(d, file) == IF d = <<>> THEN file ELSE Join(d, "/") \o <<"/">> \o file

\* the flattened name without the backslash replacement
NewFilenameSlashOnly(d, file) ==
    IF RelativePath(d) = <<".">>
    THEN DropLast(file, SuffixLen) \o TXT
    ELSE Replace(RelativePath(d) \o <<"_">> \o DropLast(file, SuffixLen),
                 "/", "_") \o TXT

NewFilename(d, file) ==
    IF RelativePath(d) = <<".">>
    THEN DropLast(file, SuffixLen) \o TXT
    ELSE Replace(Replace(RelativePath(d) \o <<"_">> \o DropLast(file, SuffixLen),
                         "/", "_"), BSL, "_") \o TXT

\* str(output_dir / new_filename)
OutputPath(new) == TEXT_FILES \o <<"/">> \o new

\* the test that guards the file loop, with the directory compared exactly
SkipRootExact(root) == root = <<".", "/">> \o TEXT_FILES

\* 'text_files' in root
SkipRoot(root) == Contains(root, TEXT_FILES)

----------------------------------------------------------------------------
(* File input and output *)

RECURSIVE Translate(_)
\* text-mode read followed by text-mode write on POSIX: universal newlines
\* turn "\r\n" and "\r" into "\n"; writing "\n" leaves it as it is
Translate(s) ==
    IF s = <<>> THEN <<>>
    ELSE IF s[1] = "CR"
         THEN <<"LF">> \o Translate(IF Len(s) > 1 /\ s[2] = "LF"
                                    THEN Tail(Tail(s)) ELSE Tail(s))
         ELSE <<s[1]>> \o Translate(Tail(s))

\* open(source_path, 'r', encoding='utf-8').read()
ReadFile(fs, p) ==
    IF "BAD" \in Range(fs[p])
    THEN [ok |-> FALSE, data |-> <<>>, err |-> "decode"]
    ELSE [ok |-> TRUE, data |-> Translate(fs[p]), err |-> "none"]

\* a write that appends to an existing file
WriteFileAppend(fs, p, data) ==
    [q \in DOMAIN fs \cup {p} |->
        IF q = p THEN (IF p \in DOMAIN fs THEN fs[p] \o data ELSE data)
        ELSE fs[q]]

\* a write that leaves an existing file alone
WriteFileKeep(fs, p, data) ==
    [q \in DOMAIN fs \cup {p} |-> IF q \in DOMAIN fs THEN fs[q] ELSE data]

\* open(output_path, 'w', encoding='utf-8').write(content)
WriteFile(fs, p, data) ==
    [q \in DOMAIN fs \cup {p} |-> IF q = p THEN data ELSE fs[q]]

\* the copy with the destination opened (and truncated) before the read
CopyFileDestFirst(fs, src, dst, unw) ==
    IF dst[2] \in unw
    THEN [fs |-> fs, ok |-> FALSE, err |-> "write"]
    ELSE LET r == ReadFile(fs, src)
         IN  IF r.ok
             THEN [fs |-> WriteFile(fs, dst, r.data), ok |-> TRUE, err |-> "none"]
             ELSE [fs |-> WriteFile(fs, dst, <<>>), ok |-> FALSE, err |-> r.err]

\* the body of the try block: read the source to the end, then write
CopyFile(fs, src, dst, unw) ==
    LET r == ReadFile(fs, src)
    IN  IF ~r.ok
        THEN [fs |-> fs, ok |-> FALSE, err |-> r.err]
        ELSE IF dst[2] \in unw
             THEN [fs |-> fs, ok |-> FALSE, err |-> "write"]
             ELSE [fs |-> WriteFile(fs, dst, r.data), ok |-> TRUE, err |-> "none"]

CreatedLine(src, new) ==
    [kind |-> "Created", path |-> OutputPath(new), src |-> src, msg |-> "none"]

ErrorLine(src, err) ==
    [kind |-> "Error", path |-> SourcePath(src[1], src[2]), src |-> src,
     msg |-> err]

\* the report with the 'Created' line printed after the try statement
ReportCreatedAlways(res, src, new) ==
    IF res.ok THEN <<CreatedLine(src, new)>>
    ELSE <<ErrorLine(src, res.err), CreatedLine(src, new)>>

\* the print of the try block or of the except block
Report(res, src, new) ==
    IF res.ok THEN <<CreatedLine(src, new)>> ELSE <<ErrorLine(src, res.err)>>

\* a handler that lets the exception out
HandlerPcRaise == "failed"

\* where control goes after the except block: on with the file loop
HandlerPc == "files"

\* mkdir without exist_ok
MkdirRaisesNoExistOk(exists, isdir) == exists

\* Path.mkdir(exist_ok=True): FileExistsError unless the entry is a directory
MkdirRaises(exists, isdir) == exists /\ ~isdir

----------------------------------------------------------------------------
(* Directory enumeration *)

RECURSIVE SetToSeq(_)
SetToSeq(S) ==
    IF S = {} THEN <<>>
    ELSE LET x == CHOOSE y \in S : TRUE IN <<x>> \o SetToSeq(S \ {x})

Reverse(s) == [i \in 1..Len(s) |-> s[Len(s) + 1 - i]]

\* the order in which scandir hands out a directory's entries: fixed by the
\* file system, one of two opposite orders
ScanOrder(S, r) == IF r THEN Reverse(SetToSeq(S)) ELSE SetToSeq(S)

Children(ds, d) ==
    {c \in ds : Len(c) = Len(d) + 1 /\ SubSeq(c, 1, Len(d)) = d}

FilesIn(fs, d) == {p[2] : p \in {q \in DOMAIN fs : q[1] = d}}

Prefixes(d) == {SubSeq(d, 1, n) : n \in 0..Len(d)}

DirsOf(fs) == UNION {Prefixes(p[1]) : p \in DOMAIN fs} \cup {<<>>}

OutDirOf(fs) ==
    [p \in {q \in DOMAIN fs : q[1] # <<>> /\ q[1][1] = TEXT_FILES} |-> fs[p]]

----------------------------------------------------------------------------
(* The trees the script is run on *)

DirA == <<"a">>
DirB == <<"b">>
DirAB == <<"a", "_", "b">>
DirXTF == <<"x">> \o TEXT_FILES
NameC == <<"c">> \o SVELTE
NameAC == <<"a", "_", "c">> \o SVELTE
NameBC == <<"b", BSL, "c">> \o SVELTE
NameCTxt == <<"c">> \o TXT
NameACTxt == <<"a", "_", "c">> \o TXT

Candidates ==
    { <<<<>>, NameAC>>,                  \* a_c.svelte
      <<<<DirA>>, NameC>>,               \* a/c.svelte
      <<<<DirA, DirB>>, NameC>>,         \* a/b/c.svelte
      <<<<DirAB>>, NameC>>,              \* a_b/c.svelte
      <<<<DirA>>, NameBC>>,              \* a/b\c.svelte
      <<<<DirA>>, NameCTxt>>,            \* a/c.txt
      <<<<DirXTF>>, NameC>>,             \* xtext_files/c.svelte
      <<<<TEXT_FILES>>, NameC>>,         \* text_files/c.svelte
      <<<<TEXT_FILES, DirA>>, NameC>>,   \* text_files/a/c.svelte
      <<<<TEXT_FILES>>, NameACTxt>> }    \* text_files/a_c.txt

Contents == { <<"x">>, <<"y", "CR", "LF">>, <<"BAD">> }

Trees ==
    UNION {[S -> Contents] :
             S \in {T \in SUBSET Candidates : Cardinality(T) <= MaxFiles}}

TargetNames(fs) ==
    {NewFilename(p[1], p[2]) : p \in {q \in DOMAIN fs : EndsWith(q[2], SVELTE)}}

Init ==
    /\ files \in Trees
    /\ dirs = DirsOf(files)
    /\ occupied \in BOOLEAN
    /\ occupied => OutputDir \notin dirs
    /\ unlistable \in SUBSET (dirs \ {<<>>})
    /\ unwritable \in SUBSET TargetNames(files)
    /\ Cardinality(unlistable) + Cardinality(unwritable)
         + (IF occupied THEN 1 ELSE 0) <= MaxFaults
    /\ rev \in BOOLEAN
    /\ pc = "start"
    /\ run = 1
    /\ stack = <<>>
    /\ cur = <<>>
    /\ pending = <<>>
    /\ console = <<>>
    /\ matched = {}
    /\ enumErr = FALSE
    /\ snap = <<>>

----------------------------------------------------------------------------
(* create_text_files *)

env == <<occupied, unlistable, unwritable, rev>>

\* output_dir.mkdir(exist_ok=True) raises: the exception leaves the script
MkdirFail ==
    /\ pc = "start"
    /\ MkdirRaises(OutputDir \in dirs \/ occupied, OutputDir \in dirs)
    /\ pc' = "failed"
    /\ UNCHANGED <<files, dirs, env, run, stack, cur, pending, console,
                   matched, enumErr, snap>>

\* output_dir.mkdir(exist_ok=True) succeeds; os.walk('.') starts at the root
MkdirOk ==
    /\ pc = "start"
    /\ ~MkdirRaises(OutputDir \in dirs \/ occupied, OutputDir \in dirs)
    /\ dirs' = dirs \cup {OutputDir}
    /\ stack' = << <<>> >>
    /\ pc' = "walk"
    /\ UNCHANGED <<files, env, run, cur, pending, console, matched, enumErr,
                   snap>>

\* os.walk: scandir of the next directory raises OSError; with onerror=None
\* the error is dropped and the directory yields nothing
WalkError ==
    /\ pc = "walk"
    /\ stack # <<>>
    /\ Head(stack) \in unlistable
    /\ stack' = Tail(stack)
    /\ enumErr' = TRUE
    /\ UNCHANGED <<files, dirs, env, pc, run, cur, pending, console, matched,
                   snap>>

\* os.walk yields a directory whose root string holds 'text_files': continue
WalkSkip ==
    /\ pc = "walk"
    /\ stack # <<>>
    /\ Head(stack) \notin unlistable
    /\ SkipRoot(WalkRoot(Head(stack)))
    /\ stack' = ScanOrder(Children(dirs, Head(stack)), rev) \o Tail(stack)
    /\ UNCHANGED <<files, dirs, env, pc, run, cur, pending, console, matched,
                   enumErr, snap>>

\* os.walk yields a directory and the loop over its files begins
WalkEnter ==
    /\ pc = "walk"
    /\ stack # <<>>
    /\ Head(stack) \notin unlistable
    /\ ~SkipRoot(WalkRoot(Head(stack)))
    /\ stack' = ScanOrder(Children(dirs, Head(stack)), rev) \o Tail(stack)
    /\ cur' = Head(stack)
    /\ pending' = ScanOrder(FilesIn(files, Head(stack)), rev)
    /\ pc' = "files"
    /\ UNCHANGED <<files, dirs, env, run, console, matched, enumErr, snap>>

\* a file whose name does not end with '.svelte'
IgnoreFile ==
    /\ pc = "files"
    /\ pending # <<>>
    /\ ~EndsWith(Head(pending), SVELTE)
    /\ pending' = Tail(pending)
    /\ UNCHANGED <<files, dirs, env, pc, run, stack, cur, console, matched,
                   enumErr, snap>>

\* a '.svelte' file: name it, copy it, print the outcome
ProcessFile ==
    /\ pc = "files"
    /\ pending # <<>>
    /\ EndsWith(Head(pending), SVELTE)
    /\ LET file == Head(pending)
           src == <<cur, file>>
           new == NewFilename(cur, file)
           res == CopyFile(files, src, <<OutputDir, new>>, unwritable)
       IN  /\ files' = res.fs
           /\ console' = console \o Report(res, src, new)
           /\ matched' = matched \cup {[src |-> src, new |-> new]}
           /\ pc' = IF res.ok THEN "files" ELSE HandlerPc
    /\ pending' = Tail(pending)
    /\ UNCHANGED <<dirs, env, run, stack, cur, enumErr, snap>>

\* the file list of the directory is used up: back to os.walk
LoopEnd ==
    /\ pc = "files"
    /\ pending = <<>>
    /\ pc' = "walk"
    /\ UNCHANGED <<files, dirs, env, run, stack, cur, pending, console,
                   matched, enumErr, snap>>

\* os.walk is exhausted: create_text_files returns
Finish ==
    /\ pc = "walk"
    /\ stack = <<>>
    /\ pc' = "done"
    /\ snap' = IF run = 1 THEN OutDirOf(files) ELSE snap
    /\ UNCHANGED <<files, dirs, env, run, stack, cur, pending, console,
                   matched, enumErr>>

\* the script is started again on the tree it left
Rerun ==
    /\ pc = "done"
    /\ run < MaxRuns
    /\ run' = run + 1
    /\ pc' = "start"
    /\ console' = <<>>
    /\ matched' = {}
    /\ enumErr' = FALSE
    /\ cur' = <<>>
    /\ UNCHANGED <<files, dirs, env, stack, pending, snap>>

Next ==
    \/ MkdirFail
    \/ MkdirOk
    \/ WalkError
    \/ WalkSkip
    \/ WalkEnter
    \/ IgnoreFile
    \/ ProcessFile
    \/ LoopEnd
    \/ Finish
    \/ Rerun

Spec == Init /\ [][Next]_vars

----------------------------------------------------------------------------
(* Vocabulary of the properties *)

SvelteFiles == {p \in DOMAIN files : EndsWith(p[2], SVELTE)}

\* the directory is the output directory or lies below it
UnderOutput(d) == d # <<>> /\ d[1] = TEXT_FILES

\* 'text_files' is one of the components of the directory's path
HasOutputComponent(d) == \E i \in 1..Len(d) : d[i] = TEXT_FILES

\* os.walk gets to the directory: neither it nor a parent fails to list
Listable(d) == Prefixes(d) \cap unlistable = {}

\* the '.svelte' files in the directories whose file loop the run executes
Processed ==
    {p \in SvelteFiles : Listable(p[1]) /\ ~SkipRoot(WalkRoot(p[1]))}

Dest(p) == <<OutputDir, NewFilename(p[1], p[2])>>

\* the file's own read and write succeed
Succeeds(p) ==
    /\ "BAD" \notin Range(files[p])
    /\ NewFilename(p[1], p[2]) \notin unwritable

LinesOf(p) == {i \in 1..Len(console) : console[i].src = p}

CreatedAt(i) == console[i].kind = "Created"

ErrorAt(i) == console[i].kind = "Error"

\* the name as the two sentences on naming give it
StatedName(d, file) ==
    IF d = <<>> THEN DropLast(file, SuffixLen) \o TXT
    ELSE Join(d, "_") \o <<"_">> \o DropLast(file, SuffixLen) \o TXT

\* the name with the backslashes of the directory's components and of the
\* base name turned into '_' as well
FlatName(d, file) ==
    IF d = <<>> THEN DropLast(file, SuffixLen) \o TXT
    ELSE Join([i \in 1..Len(d) |-> Replace(d[i], BSL, "_")], "_")
           \o <<"_">> \o Replace(DropLast(file, SuffixLen), BSL, "_") \o TXT

----------------------------------------------------------------------------
(* C1 *)

\* C1 (as stated): every matched file of a directory that is not skipped is
\* named <stem>.txt in the root and otherwise <dir with '/' as '_'>_<stem>.txt,
\* the base name itself being left as it is
C1_StatedName ==
    \A m \in matched : m.new = StatedName(m.src[1], m.src[2])

\* C1 (amended): in the root the name is <stem>.txt; below the root it is
\* '<relative directory>_<stem>' with every '/' and every backslash, those of
\* the base name included, replaced by '_', followed by '.txt'
C1_FlatName ==
    /\ \A m \in matched : m.new = FlatName(m.src[1], m.src[2])
    /\ \A i \in 1..Len(console) :
          CreatedAt(i) =>
             console[i].path = TEXT_FILES \o <<"/">>
                                 \o FlatName(console[i].src[1], console[i].src[2])

C1_Witness ==
    \E m1, m2 \in matched :
       /\ BSL \in Range(m1.src[2])
       /\ m1.src[1] # <<>>
       /\ Len(m2.src[1]) = 2

----------------------------------------------------------------------------
(* C2 *)

\* C2: when the run is over, every source reported 'Created' has under its
\* flattened name a file whose content is identical to its own; stated here
\* for the sources whose flattened name no other reported file shares
C2_ContentIdentical ==
    pc = "done" =>
       \A i \in 1..Len(console) :
          ( /\ CreatedAt(i)
            /\ \A j \in 1..Len(console) : j # i => console[j].path # console[i].path )
          => /\ Dest(console[i].src) \in DOMAIN files
             /\ files[Dest(console[i].src)] = files[console[i].src]

----------------------------------------------------------------------------
(* C3 *)

\* C3: a second run over unmodified sources leaves in text_files the same
\* files with the same contents as the first run left
C3_Idempotent ==
    (run >= 2 /\ pc = "done") => OutDirOf(files) = snap

C3_Witness ==
    /\ run = 2
    /\ pc = "done"
    /\ \E m1, m2 \in matched : m1.src # m2.src /\ m1.new = m2.new
    /\ \E i \in 1..Len(console) : CreatedAt(i)
    /\ \E i \in 1..Len(console) : ErrorAt(i)

----------------------------------------------------------------------------
(* C4 *)

\* C4: no file in text_files or below it is ever matched, read as a source or
\* named in a 'Created' or 'Error processing' line, on a first or a later run
C4_OutputNeverSource ==
    /\ \A m \in matched : ~UnderOutput(m.src[1])
    /\ \A i \in 1..Len(console) : ~UnderOutput(console[i].src[1])

C4_Witness ==
    /\ run = 2
    /\ pc = "done"
    /\ console # <<>>
    /\ \E p \in SvelteFiles : UnderOutput(p[1]) /\ Len(p[1]) = 2

----------------------------------------------------------------------------
(* C5 *)

\* C5: every '.svelte' file is processed unless 'text_files' is a whole
\* component of its directory's path (stated for runs in which every directory
\* could be listed)
C5_OnlyComponentExcluded ==
    (pc = "done" /\ unlistable = {}) =>
       \A p \in SvelteFiles :
          ~HasOutputComponent(p[1]) => \E m \in matched : m.src = p

----------------------------------------------------------------------------
(* C6 *)

\* C6: a file's read or write failure is reported as 'Error processing
\* <source path>: <message>' and never ends the run; every matched file of a
\* directory that is not skipped is attempted and, if its own read and write
\* succeed, converted
C6_ErrorIsolation ==
    /\ pc = "failed" => console = <<>>
    /\ pc = "done" =>
          \A p \in Processed :
             /\ \E m \in matched : m.src = p
             /\ IF Succeeds(p)
                THEN /\ \E i \in LinesOf(p) : CreatedAt(i)
                     /\ Dest(p) \in DOMAIN files
                ELSE \E i \in LinesOf(p) :
                        /\ ErrorAt(i)
                        /\ console[i].path = SourcePath(p[1], p[2])
                        /\ console[i].msg # "none"

C6_Witness ==
    /\ pc = "done"
    /\ Len(console) = 2
    /\ ErrorAt(1)
    /\ CreatedAt(2)

----------------------------------------------------------------------------
(* C7 *)

\* C7 (as stated): the run fails exactly when creating the output directory
\* or enumerating a directory raised an error
C7_FailsIffMkdirOrEnum ==
    pc \in {"done", "failed"} => (pc = "failed" <=> (occupied \/ enumErr))

\* C7 (amended): the run fails exactly when creating the output directory
\* raises; an error of enumerating a directory is dropped by os.walk and the
\* run completes; no read or write error of a file is fatal
C7_FailsIffMkdir ==
    /\ pc \in {"done", "failed"} => (pc = "failed" <=> occupied)
    /\ pc = "failed" => (console = <<>> /\ matched = {})

C7_Witness ==
    /\ pc = "done"
    /\ enumErr
    /\ \E i \in 1..Len(console) : ErrorAt(i)

----------------------------------------------------------------------------
(* C8 *)

\* C8: at the end of a run the console holds exactly one line for each
\* processed matched file, 'Created <destination>' if its read and write
\* succeeded and 'Error processing <source>' otherwise, and no other line
C8_OneLinePerFile ==
    pc = "done" =>
       /\ Len(console) = Cardinality(Processed)
       /\ \A i \in 1..Len(console) : console[i].src \in Processed
       /\ \A p \in Processed :
             /\ Cardinality(LinesOf(p)) = 1
             /\ \A i \in LinesOf(p) :
                   IF Succeeds(p)
                   THEN CreatedAt(i) /\ console[i].path = OutputPath(Dest(p)[2])
                   ELSE ErrorAt(i) /\ console[i].path = SourcePath(p[1], p[2])

C8_Witness ==
    /\ pc = "done"
    /\ Len(console) = 1
    /\ ErrorAt(1)
    /\ Cardinality(DOMAIN files) = 2

----------------------------------------------------------------------------
(* C9 *)

----------------------------------------------------------------------------
(* C10 *)

ReadFails ==
    /\ pc = "files"
    /\ pending # <<>>
    /\ EndsWith(Head(pending), SVELTE)
    /\ "BAD" \in Range(files[<<cur, Head(pending)>>])

\* C10: the step that processes a file whose read fails leaves every file as
\* it was: the destination is neither created nor truncated nor rewritten
C10_ReadFailureLeavesDest ==
    [][ReadFails => files' = files]_vars

C10_Witness ==
    \E i \in 1..Len(console) :
       /\ ErrorAt(i)
       /\ console[i].msg = "decode"
       /\ Dest(console[i].src) \in DOMAIN files
       /\ files[Dest(console[i].src)] # <<>>

====
